---- MODULE Spec2Model ----
(***************************************************************************)
(* Model of the two device adapters of the repository:                     *)
(*   - ThorlabsUSBCam (ThorlabsUSBCamera.cpp): lifecycle, image buffer,    *)
(*     property handlers and the sequence acquisition thread;              *)
(*   - CIntegratedLaserEngine (IntegratedLaserEngine.cpp): construction,   *)
(*     lifecycle, device selection and the "Reset device connection"       *)
(*     property.                                                           *)
(* The host (MMCore) calls the adapter from one thread; every activate()   *)
(* of MySequenceThread creates one more thread running svc().              *)
(***************************************************************************)
EXTENDS Integers, FiniteSets, Sequences, TLC

\* ------------------------------------------------------------------ bounds
NThreads == 2
MaxImages == 2
NHandles == 2
\* width in bits of the C type long of the model
LongBits == 3
\* the largest number of devices a laser engine is constructed for
MaxDevices == 2

Threads == 1..NThreads
Handles == 1..NHandles

\* numImages arguments the host passes to StartSequenceAcquisition
NumImagesArgs == 0..MaxImages

\* the values of a long; StartSequenceAcquisition(double) passes LONG_MAX
LONG_MAX == 2^(LongBits - 1) - 1
LONG_MIN == -(2^(LongBits - 1))
LongValues == LONG_MIN..LONG_MAX

\* arithmetic on long: a result that does not fit is undefined behaviour,
\* the build may produce any long
LongOutcomes(v) == IF v \in LongValues THEN {v} ELSE LongValues

\* the tallies waits and frames count up to one more than any long
Tally(n) == IF n <= LONG_MAX THEN n + 1 ELSE n

\* ------------------------------------------------------- program constants
sensorInfo == [nMaxWidth |-> 4, nMaxHeight |-> 2]

g_PixelType_8bit == "8bit"
g_PixelType_16bit == "16bit"

\* the values SetAllowedValues registers for "PixelType" and "Binning"
pixelTypeValues == {g_PixelType_8bit, g_PixelType_16bit}
binValues == {1}

\* results of the host callbacks InsertImage / PrepareForAcq
CoreInsertResults == {"DEVICE_OK", "DEVICE_BUFFER_OVERFLOW", "DEVICE_ERR"}
CorePrepareResults == {"DEVICE_OK", "DEVICE_ERR"}

\* property values of the laser engine
g_Undefined == "Undefined"
g_PropertyOn == "On"
g_PropertyOff == "Off"

\* the lists ILEWrapper_->GetListOfDevices can give, and the device names
\* the host can write to a device selection property
DeviceLists == {<< >>, <<"ILE A", "ILE B">>}
DeviceNames == {"ILE A", "ILE B"}

\* the arguments NbDevices of the constructor
NbDevicesArgs == -1..MaxDevices

\* the "Reset device connection" property before Initialize creates it
NoProperty == [exists |-> FALSE, value |-> g_PropertyOff, readOnly |-> TRUE]

\* the unallocated driver buffer
NoMem == [w |-> 0, h |-> 0, bits |-> 0]

VARIABLES
  \* ThorlabsUSBCam fields
  initialized_, bitDepth_, binSize_, img_, cameraBuf, roi_,
  stopOnOverFlow_, imageCounter_, hEvent,
  \* the "Binning" and "PixelType" properties exist: Initialize created them
  props,
  \* MySequenceThread fields (thd_)
  stop_, numImages_, thdImageCounter_, thread_,
  \* the threads activate() created: position in svc, local ret, and the
  \* frame event that StartSequenceAcquisition created for the thread
  pc, ret, ev,
  \* imgPixelsLock_: 0 when free, else the thread holding it
  imgPixelsLock_,
  \* the host thread: position, argument kept across thd_->Start(), and the
  \* last call that returned: its name, its code and its SDK calls ("none":
  \* it made none, "ok": all succeeded, "failed": one of them failed)
  hostpc, sofArg, hostCall,
  \* vendor SDK and OS: camera opened, driver buffer, frame event enabled,
  \* the open event handles
  camOpen, driverMem, eventEnabled, openEvents,
  \* host image queue as the adapter sees it: the calls of the InsertImage
  \* in progress, and the acquisitions not yet reported by AcqFinished
  ins, acqOpen,
  \* InsertImage calls begun while StopSequenceAcquisition waits
  stopInserts,
  \* SetROI has been called with a non-empty size
  roiCalled,
  \* the acquisition of the last thd_->Start: the WaitForSingleObject calls
  \* ThreadRun made and the host InsertImage calls that returned DEVICE_OK
  waits, frames,
  \* CIntegratedLaserEngine fields: Initialized_, Lasers_ and ILEDevice_
  \* (FALSE: null), and the last call of the laser engine that returned:
  \* its name, its code, and whether a step of it failed
  Initialized_, Lasers_, ILEDevice_, ileCall,
  \* the laser engine object exists (its constructor did not throw), with
  \* the constructor's NbDevices, and its fields DeviceList_, DevicesNames_
  \* and ResetDeviceProperty_ (FALSE: null)
  ileObject, NbDevices, DeviceList_, DevicesNames_, ResetDeviceProperty_,
  \* the values of the device selection properties, by device index + 1,
  \* and the "Reset device connection" property
  deviceProps, resetProp,
  \* the CLasers object holds the interfaces of the connected device
  attached,
  \* the last call of the laser engine went through a null pointer:
  \* "none", "survived" or "crashed"
  ileFault

camVars == <<initialized_, bitDepth_, binSize_, img_, cameraBuf, roi_,
             stopOnOverFlow_, imageCounter_, hEvent, props>>
thdVars == <<stop_, numImages_, thdImageCounter_, thread_>>
thrVars == <<pc, ret, ev, imgPixelsLock_>>
hostVars == <<hostpc, sofArg, hostCall>>
sdkVars == <<camOpen, driverMem, eventEnabled, openEvents>>
logVars == <<ins, acqOpen, stopInserts, roiCalled>>
cntVars == <<waits, frames>>

ileVars == <<Initialized_, Lasers_, ILEDevice_, ileCall, ileObject, NbDevices,
            DeviceList_, DevicesNames_, ResetDeviceProperty_, deviceProps,
            resetProp, attached, ileFault>>

vars == <<camVars, thdVars, thrVars, hostVars, sdkVars, logVars, cntVars,
          ileVars>>

\* no InsertImage in progress
NoIns == [first |-> "none", clears |-> 0, inserts |-> 0, last |-> "none",
          sof |-> FALSE]

\* ThorlabsUSBCam::ThorlabsUSBCam and MySequenceThread::MySequenceThread;
\* the laser engine is not constructed yet, its variables hold what the
\* member initializers of the constructor give.
\* stopOnOverFlow_ has no initializer: its value is indeterminate.
Init ==
  /\ initialized_ = FALSE
  /\ props = FALSE
  /\ bitDepth_ = 8
  /\ binSize_ = 1
  /\ img_ = [w |-> 0, h |-> 0, d |-> 0]
  /\ cameraBuf = 0
  /\ roi_ = [x |-> 0, y |-> 0]
  /\ stopOnOverFlow_ \in BOOLEAN
  /\ imageCounter_ = 0
  /\ hEvent = 0
  /\ stop_ = TRUE
  /\ numImages_ = 1
  /\ thdImageCounter_ = 0
  /\ thread_ = 0
  /\ pc = [t \in Threads |-> "none"]
  /\ ret = [t \in Threads |-> "DEVICE_ERR"]
  /\ ev = [t \in Threads |-> 0]
  /\ imgPixelsLock_ = 0
  /\ hostpc = "idle"
  /\ sofArg = stopOnOverFlow_
  /\ hostCall = [op |-> "new", ret |-> "DEVICE_OK", sdk |-> "none"]
  /\ camOpen = FALSE
  /\ driverMem = NoMem
  /\ eventEnabled = FALSE
  /\ openEvents = {}
  /\ ins = NoIns
  /\ acqOpen = 0
  /\ stopInserts = 0
  /\ roiCalled = FALSE
  /\ waits = 0
  /\ frames = 0
  /\ Initialized_ = FALSE
  /\ Lasers_ = FALSE
  /\ ILEDevice_ = FALSE
  /\ ileCall = [op |-> "new", ret |-> "DEVICE_OK", failed |-> FALSE]
  /\ ileObject = FALSE
  /\ NbDevices = 0
  /\ DeviceList_ = << >>
  /\ DevicesNames_ = << >>
  /\ ResetDeviceProperty_ = FALSE
  /\ deviceProps = << >>
  /\ resetProp = NoProperty
  /\ attached = FALSE
  /\ ileFault = "none"

\* a host call returns code r; sdk tells what became of its SDK calls
Return(op, r, sdk) ==
  hostCall' = [op |-> op, ret |-> r, sdk |-> sdk]

\* every variable a host call leaves alone when it only returns a code
OnlyReturn(op, r, sdk) ==
  /\ Return(op, r, sdk)
  /\ UNCHANGED <<camVars, thdVars, thrVars, hostpc, sofArg, sdkVars, logVars,
                 cntVars>>

\* MySequenceThread::IsStopped / ThorlabsUSBCam::IsCapturing
IsStopped == stop_
IsCapturing == ~IsStopped

\* --------------------------------------------------------------- lifecycle

\* the answers is_FreeImageMem can give: it is called only on a buffer
FreeAnswers == IF cameraBuf # 0 THEN BOOLEAN ELSE {TRUE}

\* ThorlabsUSBCam::ResizeImageBuffer with bitDepth_ = bits on a camera that
\* is open or not; freeOk / allocOk: what is_FreeImageMem / is_AllocImageMem
\* answer when the call is valid. Gives the return code and the new values.
ResizeImageBuffer(open, bits, freeOk, allocOk) ==
  LET byteDepth == IF bits = 8 THEN 1 ELSE 2
      width == sensorInfo.nMaxWidth \div binSize_
      height == sensorInfo.nMaxHeight \div binSize_
  IN IF cameraBuf # 0 /\ ~(open /\ driverMem # NoMem /\ freeOk)
       THEN [ret |-> "IS_ERR", cameraBuf |-> cameraBuf,
             driverMem |-> driverMem, img_ |-> img_]
     ELSE IF ~(open /\ allocOk)
       THEN [ret |-> "IS_ERR", cameraBuf |-> 0,
             driverMem |-> NoMem, img_ |-> img_]
     ELSE [ret |-> "DEVICE_OK", cameraBuf |-> 1,
           driverMem |-> [w |-> width, h |-> height, bits |-> byteDepth * 8],
           img_ |-> [w |-> width, h |-> height, d |-> byteDepth]]

\* what a host call reports of ResizeImageBuffer's SDK calls
SdkOf(code) == IF code = "DEVICE_OK" THEN "ok" ELSE "failed"

\* the calls of Initialize whose result is tested, in order, up to
\* UpdateStatus; is_PixelClock(GET) between the last two is not tested
InitSteps == <<"is_InitCamera", "is_GetCameraInfo", "is_GetSensorInfo",
               "is_SetDisplayMode", "is_SetColorMode",
               "is_PixelClock_GET_RANGE", "UpdateStatus">>
StepIndex(s) == CHOOSE i \in 1..Len(InitSteps) : InitSteps[i] = s

\* ThorlabsUSBCam::Initialize. fail: the first tested step that fails
\* ("none": none does); clkGetOk: the result of the untested is_PixelClock.
Initialize ==
  /\ hostpc = "idle"
  /\ IF initialized_
       THEN OnlyReturn("Initialize", "DEVICE_OK", "none")
       ELSE \E fail \in {InitSteps[i] : i \in 1..Len(InitSteps)} \cup {"none"} :
            \E clkGetOk \in IF fail \in {"none", "UpdateStatus"}
                               THEN BOOLEAN ELSE {TRUE},
               freeOk \in IF fail = "none" THEN FreeAnswers ELSE {TRUE},
               allocOk \in IF fail = "none" THEN BOOLEAN ELSE {TRUE} :
         LET n == IF fail = "none" THEN Len(InitSteps) + 1 ELSE StepIndex(fail)
             passed(s) == StepIndex(s) < n
             resized == fail = "none"
             rib == ResizeImageBuffer(TRUE, 8, freeOk, allocOk)
             code == IF resized THEN rib.ret
                     ELSE IF fail = "UpdateStatus" THEN "DEVICE_ERR"
                     ELSE "IS_ERR"
         IN /\ camOpen' = passed("is_InitCamera")
            /\ bitDepth_' = IF passed("is_SetColorMode") THEN 8 ELSE bitDepth_
            /\ props' = (props \/ passed("is_SetColorMode"))
            /\ cameraBuf' = IF resized THEN rib.cameraBuf ELSE cameraBuf
            /\ driverMem' = IF resized THEN rib.driverMem ELSE driverMem
            /\ img_' = IF resized THEN rib.img_ ELSE img_
            /\ initialized_' = (code = "DEVICE_OK")
            /\ Return("Initialize", code,
                      IF code = "DEVICE_OK" /\ clkGetOk THEN "ok" ELSE "failed")
            /\ UNCHANGED <<binSize_, roi_, stopOnOverFlow_, imageCounter_,
                           hEvent, thdVars, thrVars, hostpc, sofArg,
                           eventEnabled, openEvents, logVars>>
  /\ UNCHANGED <<cntVars, ileVars>>

\* a Shutdown that frees the driver buffer and keeps its pointer
ShutdownKeepingPointer ==
  /\ hostpc = "idle"
  /\ \E freeOk \in FreeAnswers :
       IF cameraBuf # 0 /\ ~(camOpen /\ driverMem # NoMem /\ freeOk)
         THEN OnlyReturn("Shutdown", "IS_ERR", "failed")
         ELSE /\ driverMem' = NoMem
              /\ camOpen' = FALSE
              /\ initialized_' = FALSE
              /\ Return("Shutdown", "DEVICE_OK",
                        IF camOpen THEN "ok" ELSE "failed")
              /\ UNCHANGED <<bitDepth_, binSize_, img_, cameraBuf, roi_,
                             stopOnOverFlow_, imageCounter_, hEvent, props,
                             thdVars, thrVars, hostpc, sofArg, eventEnabled,
                             openEvents, logVars>>
  /\ UNCHANGED <<cntVars, ileVars>>

\* ThorlabsUSBCam::Shutdown. is_ExitCamera fails on a camera that is not
\* open; its result is not looked at.
Shutdown ==
  /\ hostpc = "idle"
  /\ \E freeOk \in FreeAnswers :
       IF cameraBuf # 0 /\ ~(camOpen /\ driverMem # NoMem /\ freeOk)
         THEN OnlyReturn("Shutdown", "IS_ERR", "failed")
         ELSE /\ cameraBuf' = 0
              /\ driverMem' = NoMem
              /\ camOpen' = FALSE
              /\ initialized_' = FALSE
              /\ Return("Shutdown", "DEVICE_OK",
                        IF camOpen THEN "ok" ELSE "failed")
              /\ UNCHANGED <<bitDepth_, binSize_, img_, roi_, stopOnOverFlow_,
                             imageCounter_, hEvent, props, thdVars, thrVars,
                             hostpc, sofArg, eventEnabled, openEvents,
                             logVars>>
  /\ UNCHANGED <<cntVars, ileVars>>

\* ThorlabsUSBCam::OnBinning, MM::AfterSet with value binFactor
OnBinning(binFactor) ==
  /\ hostpc = "idle"
  /\ props
  /\ IF IsCapturing
       THEN OnlyReturn("SetBinning", "DEVICE_CAMERA_BUSY_ACQUIRING", "none")
     ELSE IF binFactor > 0 /\ binFactor < 10
       THEN /\ img_' = [w |-> sensorInfo.nMaxWidth \div binFactor,
                        h |-> sensorInfo.nMaxHeight \div binFactor,
                        d |-> img_.d]
            /\ binSize_' = binFactor
            /\ Return("SetBinning", "DEVICE_OK", "none")
            /\ UNCHANGED <<initialized_, props, bitDepth_, cameraBuf, roi_,
                           stopOnOverFlow_, imageCounter_, hEvent, thdVars,
                           thrVars, hostpc, sofArg, sdkVars, logVars>>
     ELSE OnlyReturn("SetBinning", "DEVICE_ERR", "none")
  /\ UNCHANGED <<cntVars, ileVars>>

\* ThorlabsUSBCam::OnPixelType, MM::AfterSet with value pixelType
OnPixelType(pixelType) ==
  /\ hostpc = "idle"
  /\ props
  /\ IF IsCapturing
       THEN OnlyReturn("SetPixelType", "DEVICE_CAMERA_BUSY_ACQUIRING", "none")
     ELSE IF pixelType \in {g_PixelType_8bit, g_PixelType_16bit}
       THEN \E colorOk \in BOOLEAN :
            \E allocOk \in IF colorOk THEN BOOLEAN ELSE {TRUE},
               freeOk \in IF colorOk THEN FreeAnswers ELSE {TRUE} :
         LET bits == IF pixelType = g_PixelType_8bit THEN 8 ELSE 16
             rib == ResizeImageBuffer(camOpen, bits, freeOk, allocOk)
         IN IF ~(camOpen /\ colorOk)
              THEN OnlyReturn("SetPixelType", "IS_ERR", "failed")
              ELSE /\ bitDepth_' = bits
                   /\ cameraBuf' = rib.cameraBuf
                   /\ driverMem' = rib.driverMem
                   /\ img_' = rib.img_
                   /\ Return("SetPixelType", rib.ret, SdkOf(rib.ret))
                   /\ UNCHANGED <<initialized_, props, binSize_, roi_,
                                  stopOnOverFlow_, imageCounter_, hEvent,
                                  thdVars, thrVars, hostpc, sofArg, camOpen,
                                  eventEnabled, openEvents, logVars>>
     ELSE /\ bitDepth_' = 8
          /\ Return("SetPixelType", "ERR_THORCAM_UNKNOWN_PIXEL_TYPE", "none")
          /\ UNCHANGED <<initialized_, props, binSize_, img_, cameraBuf, roi_,
                         stopOnOverFlow_, imageCounter_, hEvent, thdVars,
                         thrVars, hostpc, sofArg, sdkVars, logVars>>
  /\ UNCHANGED <<cntVars, ileVars>>

\* the ROI arguments the host passes: x, y, xSize, ySize
ROIArgs == {<<0, 0, 0, 0>>, <<1, 1, 2, 1>>}

\* ThorlabsUSBCam::SetROI; the result of ResizeImageBuffer is dropped
SetROI(x, y, xSize, ySize) ==
  /\ hostpc = "idle"
  /\ IF xSize = 0 /\ ySize = 0
       THEN \E freeOk \in FreeAnswers, allocOk \in BOOLEAN :
         LET rib == ResizeImageBuffer(camOpen, bitDepth_, freeOk, allocOk)
         IN /\ cameraBuf' = rib.cameraBuf
            /\ driverMem' = rib.driverMem
            /\ img_' = rib.img_
            /\ roi_' = [x |-> 0, y |-> 0]
            /\ Return("SetROI", "DEVICE_OK", SdkOf(rib.ret))
            /\ UNCHANGED roiCalled
       ELSE /\ img_' = [w |-> xSize, h |-> ySize, d |-> img_.d]
            /\ roi_' = [x |-> x, y |-> y]
            /\ roiCalled' = TRUE
            /\ Return("SetROI", "DEVICE_OK", "none")
            /\ UNCHANGED <<cameraBuf, driverMem>>
  /\ UNCHANGED <<initialized_, props, bitDepth_, binSize_, stopOnOverFlow_,
                 imageCounter_, hEvent, thdVars, thrVars, hostpc, sofArg,
                 camOpen, eventEnabled, openEvents, ins, acqOpen,
                 stopInserts>>
  /\ UNCHANGED <<cntVars, ileVars>>

\* ThorlabsUSBCam::ClearROI; the result of ResizeImageBuffer is dropped
ClearROI ==
  /\ hostpc = "idle"
  /\ \E freeOk \in FreeAnswers, allocOk \in BOOLEAN :
       LET rib == ResizeImageBuffer(camOpen, bitDepth_, freeOk, allocOk)
       IN /\ cameraBuf' = rib.cameraBuf
          /\ driverMem' = rib.driverMem
          /\ img_' = rib.img_
          /\ Return("ClearROI", "DEVICE_OK", SdkOf(rib.ret))
  /\ roi_' = [x |-> 0, y |-> 0]
  /\ UNCHANGED <<initialized_, props, bitDepth_, binSize_, stopOnOverFlow_,
                 imageCounter_, hEvent, thdVars, thrVars, hostpc, sofArg,
                 camOpen, eventEnabled, openEvents, logVars>>
  /\ UNCHANGED <<cntVars, ileVars>>

\* ThorlabsUSBCam::GetImageBuffer: takes imgPixelsLock_ for the read of the
\* pointer and gives it back
GetImageBuffer ==
  /\ hostpc = "idle"
  /\ imgPixelsLock_ = 0
  /\ UNCHANGED vars

\* ------------------------------------------------------------ laser engine

\* everything of the camera adapter and its environment
usbCamVars == <<camVars, thdVars, thrVars, hostVars, sdkVars, logVars,
                cntVars>>

\* what CreateILE() and the loading of the lasers can do in Initialize:
\* CreateILE returns true or false or throws a string; GetLaserInterface2
\* gives an interface from which CLasers is built, or null, or CLasers throws
ILE_CreateOutcomes == {"true", "false", "throws"}
ILE_LasersOutcomes == {"loaded", "null", "throws"}

\* the laser engine takes calls: it exists and has not crashed
ILE_Alive == ileObject /\ ileFault # "crashed"

\* the laser variables only the constructor assigns
ctorVars == <<ileObject, NbDevices, DeviceList_>>
\* the device selection
deviceVars == <<DevicesNames_, deviceProps>>

\* CIntegratedLaserEngine::CreateDeviceSelectionProperty: the initial device
InitialDevice(list) == IF list # << >> THEN Head(list) ELSE g_Undefined

\* CIntegratedLaserEngine::CIntegratedLaserEngine(Description, NbDevices):
\* throws std::logic_error for NbDevices <= 0, else DevicesNames_ holds
\* NbDevices names and every device index has its selection property
ILE_Construct(nbDevices) ==
  /\ ~ileObject
  /\ IF nbDevices <= 0
       THEN /\ ileCall' = [op |-> "CIntegratedLaserEngine",
                           ret |-> "logic_error", failed |-> TRUE]
            /\ UNCHANGED <<ctorVars, deviceVars>>
       ELSE \E list \in DeviceLists :
            /\ ileObject' = TRUE
            /\ NbDevices' = nbDevices
            /\ DeviceList_' = list
            /\ DevicesNames_' = [i \in 1..nbDevices |-> InitialDevice(list)]
            /\ deviceProps' = [i \in 1..nbDevices |-> InitialDevice(list)]
            /\ ileCall' = [op |-> "CIntegratedLaserEngine",
                           ret |-> "DEVICE_OK", failed |-> FALSE]
  /\ UNCHANGED <<Initialized_, Lasers_, ILEDevice_, ResetDeviceProperty_,
                 resetProp, attached, ileFault>>
  /\ UNCHANGED usbCamVars

\* Initialize: CreateStringProperty(g_ResetDeviceProperty, g_PropertyOff,
\* true, vAct); a property that exists already is left as it is
CreateResetProperty ==
  IF resetProp.exists THEN resetProp
  ELSE [exists |-> TRUE, value |-> g_PropertyOff, readOnly |-> TRUE]

\* CIntegratedLaserEngine::Initialize
ILE_Initialize ==
  /\ ILE_Alive
  /\ IF Initialized_
       THEN /\ ileCall' = [op |-> "Initialize", ret |-> "DEVICE_OK",
                           failed |-> FALSE]
            /\ UNCHANGED <<Initialized_, Lasers_, ILEDevice_, resetProp,
                           attached>>
       ELSE \E create \in ILE_CreateOutcomes :
            \E lasers \in IF create = "true" THEN ILE_LasersOutcomes
                                             ELSE {"loaded"} :
            \E ports \in IF create = "true" /\ lasers # "throws"
                            THEN BOOLEAN ELSE {TRUE} :
            \E blanking \in IF create = "true" /\ lasers # "throws" /\ ports
                               THEN BOOLEAN ELSE {TRUE} :
            \E lowPower \in IF create = "true" /\ lasers # "throws" /\ ports
                                  /\ blanking
                               THEN BOOLEAN ELSE {TRUE} :
         LET code == IF create = "false" THEN "DEVICE_NOT_CONNECTED"
                     ELSE IF create = "throws"
                       THEN "DEVICE_LOCALLY_DEFINED_ERROR"
                     ELSE IF lasers = "throws" THEN "ERR_LASERS_INIT"
                     ELSE IF ~ports THEN "ERR_PORTS_INIT"
                     ELSE IF ~blanking THEN "ERR_ACTIVEBLANKING_INIT"
                     ELSE IF ~lowPower THEN "ERR_LOWPOWERMODE_INIT"
                     ELSE "DEVICE_OK"
         IN /\ ILEDevice_' = IF create = "true" THEN TRUE ELSE ILEDevice_
            /\ Lasers_' = IF create = "true" /\ lasers = "loaded"
                            THEN TRUE ELSE Lasers_
            /\ attached' = IF create = "true" /\ lasers = "loaded"
                             THEN TRUE ELSE attached
            /\ resetProp' = IF create = "true" THEN CreateResetProperty
                            ELSE resetProp
            /\ Initialized_' = (code = "DEVICE_OK")
            /\ ileCall' = [op |-> "Initialize", ret |-> code,
                           failed |-> (code # "DEVICE_OK" \/ lasers = "null")]
  /\ ileFault' = "none"
  /\ UNCHANGED <<ctorVars, deviceVars, ResetDeviceProperty_>>
  /\ UNCHANGED usbCamVars

\* CIntegratedLaserEngine::Shutdown
ILE_Shutdown ==
  /\ ILE_Alive
  /\ Lasers_' = FALSE
  /\ attached' = FALSE
  /\ ILEDevice_' = FALSE
  /\ Initialized_' = FALSE
  /\ ileCall' = [op |-> "Shutdown", ret |-> "DEVICE_OK", failed |-> FALSE]
  /\ ileFault' = "none"
  /\ UNCHANGED <<ctorVars, deviceVars, ResetDeviceProperty_, resetProp>>
  /\ UNCHANGED usbCamVars

\* long DeviceIndex converted to size_t for the comparison with size()
ToSizeT(i) == i % (2^LongBits)

\* a test of the index that compares it as a signed number
IndexPastEndSigned(DeviceIndex) == DeviceIndex >= Len(DevicesNames_)

\* OnDeviceChange: DeviceIndex >= DevicesNames_.size()
IndexPastEnd(DeviceIndex) == ToSizeT(DeviceIndex) >= Len(DevicesNames_)

\* CIntegratedLaserEngine::OnDeviceChange(Prop, Act, DeviceIndex), with the
\* value the host wrote to the property before AfterSet. An index that
\* passes the test and is outside the vector is undefined behaviour.
OnDeviceChange(Act, DeviceIndex, value) ==
  /\ ILE_Alive
  /\ IF IndexPastEnd(DeviceIndex)
       THEN /\ ileCall' = [op |-> "OnDeviceChange",
                           ret |-> "ERR_DEVICE_INDEXINVALID",
                           failed |-> TRUE]
            /\ ileFault' = "none"
            /\ UNCHANGED deviceVars
     ELSE IF DeviceIndex + 1 \notin DOMAIN DevicesNames_
       THEN /\ ileCall' = [op |-> "OnDeviceChange", ret |-> "DEVICE_OK",
                           failed |-> TRUE]
            /\ ileFault' \in {"survived", "crashed"}
            /\ DevicesNames_' \in [DOMAIN DevicesNames_ ->
                                     DeviceNames \cup {g_Undefined}]
            /\ UNCHANGED deviceProps
     ELSE /\ ileCall' = [op |-> "OnDeviceChange", ret |-> "DEVICE_OK",
                         failed |-> FALSE]
          /\ ileFault' = "none"
          /\ IF Act = "BeforeGet"
               THEN /\ deviceProps' =
                         [deviceProps EXCEPT ![DeviceIndex + 1] =
                            DevicesNames_[DeviceIndex + 1]]
                    /\ UNCHANGED DevicesNames_
               ELSE /\ deviceProps' =
                         [deviceProps EXCEPT ![DeviceIndex + 1] = value]
                    /\ DevicesNames_' =
                         [DevicesNames_ EXCEPT ![DeviceIndex + 1] = value]
  /\ UNCHANGED <<Initialized_, Lasers_, ILEDevice_, ctorVars,
                 ResetDeviceProperty_, resetProp, attached>>
  /\ UNCHANGED usbCamVars

\* OnResetDevice, the connection test after CreateILE(): what the handler
\* does when CreateILE returned created
ReconnectFailed(created) == created

\* OnResetDevice(Prop, BeforeGet)
OnResetDeviceGet ==
  /\ ILE_Alive
  /\ resetProp.exists
  /\ ResetDeviceProperty_' = TRUE
  /\ ileCall' = [op |-> "OnResetDevice(BeforeGet)", ret |-> "DEVICE_OK",
                 failed |-> FALSE]
  /\ ileFault' = "none"
  /\ UNCHANGED <<Initialized_, Lasers_, ILEDevice_, ctorVars, deviceVars,
                 resetProp, attached>>
  /\ UNCHANGED usbCamVars

\* OnResetDevice(Prop, AfterSet) with the value the host wrote; the host
\* writes a property only while it is writable. Lasers_->UpdateILEInterface
\* on a null Lasers_ and ILEDevice_->GetLaserInterface2() on a null
\* ILEDevice_ are undefined behaviour: the call crashes or goes on.
OnResetDeviceSet(value) ==
  /\ ILE_Alive
  /\ resetProp.exists
  /\ ~resetProp.readOnly
  /\ ResetDeviceProperty_' = TRUE
  /\ IF value # g_PropertyOn
       THEN /\ resetProp' = [resetProp EXCEPT !.value = value]
            /\ ileCall' = [op |-> "OnResetDevice(Off)", ret |-> "DEVICE_OK",
                           failed |-> FALSE]
            /\ ileFault' = "none"
            /\ UNCHANGED <<Lasers_, ILEDevice_, attached>>
       ELSE \E create \in ILE_CreateOutcomes :
         LET created == create = "true"
             goesOn == create # "throws" /\ ~ReconnectFailed(created)
             nullUsed == ~Lasers_ \/ (goesOn /\ ~created)
         IN \E crash \in IF nullUsed THEN BOOLEAN ELSE {FALSE} :
         LET code == IF crash THEN "crash"
                     ELSE IF create = "throws"
                       THEN "DEVICE_LOCALLY_DEFINED_ERROR"
                     ELSE IF ReconnectFailed(created)
                       THEN "ERR_DEVICE_CONNECTIONFAILED"
                     ELSE "DEVICE_OK"
         IN /\ ileCall' = [op |-> "OnResetDevice(On)", ret |-> code,
                           failed |-> ~created]
            /\ ileFault' = IF crash THEN "crashed"
                           ELSE IF nullUsed THEN "survived" ELSE "none"
            /\ ILEDevice_' = created
            /\ UNCHANGED Lasers_
            /\ attached' = (code = "DEVICE_OK" /\ Lasers_ /\ created)
            /\ resetProp' =
                 IF code = "DEVICE_OK"
                   THEN [resetProp EXCEPT !.value = g_PropertyOff,
                                          !.readOnly = TRUE]
                   ELSE [resetProp EXCEPT !.value = g_PropertyOn]
  /\ UNCHANGED <<Initialized_, ctorVars, deviceVars>>
  /\ UNCHANGED usbCamVars

\* CIntegratedLaserEngine::ActiveClassIVInterlock
ActiveClassIVInterlock ==
  /\ ILE_Alive
  /\ resetProp' = IF ResetDeviceProperty_
                    THEN [resetProp EXCEPT !.readOnly = FALSE]
                    ELSE resetProp
  /\ ileCall' = [op |-> "ActiveClassIVInterlock", ret |-> "DEVICE_OK",
                 failed |-> FALSE]
  /\ ileFault' = "none"
  /\ UNCHANGED <<Initialized_, Lasers_, ILEDevice_, ctorVars, deviceVars,
                 ResetDeviceProperty_, attached>>
  /\ UNCHANGED usbCamVars

\* the laser engine: construction, lifecycle and property handlers
NextILE ==
  \/ \E n \in NbDevicesArgs : ILE_Construct(n)
  \/ ILE_Initialize
  \/ ILE_Shutdown
  \/ \E a \in {"BeforeGet", "AfterSet"}, i \in LongValues, v \in DeviceNames :
       OnDeviceChange(a, i, v)
  \/ OnResetDeviceGet
  \/ \E v \in {g_PropertyOn, g_PropertyOff} : OnResetDeviceSet(v)
  \/ ActiveClassIVInterlock

SpecILE == Init /\ [][NextILE]_vars

\* the device selection of the laser engine beside its lifecycle
NextDevices ==
  \/ \E n \in NbDevicesArgs : ILE_Construct(n)
  \/ ILE_Initialize
  \/ ILE_Shutdown
  \/ \E a \in {"BeforeGet", "AfterSet"}, i \in LongValues, v \in DeviceNames :
       OnDeviceChange(a, i, v)

SpecDevices == Init /\ [][NextDevices]_vars

\* ------------------------------------------------------------- acquisition

\* CreateEvent: a handle that is not open, NULL (0) when none is left
CreateEvent ==
  IF Handles \ openEvents = {} THEN 0
  ELSE CHOOSE h \in Handles \ openEvents :
         \A g \in Handles \ openEvents : h <= g

\* the thread activate() creates: a slot no running thread uses
FreeSlots == {t \in Threads : pc[t] \in {"none", "done"}}
NewThread == CHOOSE t \in FreeSlots : \A u \in FreeSlots : t <= u

\* a StartSequenceAcquisition with no guard on IsCapturing
StartNeverRefused == FALSE

\* the guard of StartSequenceAcquisition
StartRefused == IsCapturing

\* ThorlabsUSBCam::StartSequenceAcquisition up to and including
\* thd_->Start(numImages, interval_ms); MySequenceThread::Start inlined.
\* sequenceStartTime_ is assigned where imageCounter_ is.
StartSequenceAcquisition(numImages, stopOnOverflow) ==
  /\ hostpc = "idle"
  /\ IF StartRefused
       THEN OnlyReturn("Start", "DEVICE_CAMERA_BUSY_ACQUIRING", "none")
       ELSE \E prep \in CorePrepareResults :
            \E capOk \in IF prep = "DEVICE_OK" /\ camOpen
                            THEN BOOLEAN ELSE {FALSE} :
         IF prep # "DEVICE_OK"
           THEN OnlyReturn("Start", prep, "none")
           ELSE
             LET h == CreateEvent
             IN /\ imageCounter_' = 0
                /\ hEvent' = h
                /\ openEvents' = openEvents \cup ({h} \ {0})
                /\ eventEnabled' = IF camOpen /\ h # 0 THEN TRUE
                                   ELSE eventEnabled
                /\ IF ~capOk
                     THEN /\ Return("Start", "IS_ERR", "failed")
                          /\ UNCHANGED <<thdVars, thrVars, hostpc, sofArg,
                                         acqOpen, stopInserts, cntVars>>
                     ELSE /\ FreeSlots # {}
                          /\ numImages_' = numImages
                          /\ thdImageCounter_' = 0
                          /\ stop_' = FALSE
                          /\ thread_' = NewThread
                          /\ pc' = [pc EXCEPT ![NewThread] = "run"]
                          /\ ret' = [ret EXCEPT ![NewThread] = "DEVICE_ERR"]
                          /\ ev' = [ev EXCEPT ![NewThread] = h]
                          /\ acqOpen' = acqOpen + 1
                          /\ stopInserts' = 0
                          /\ waits' = 0
                          /\ frames' = 0
                          /\ hostpc' = "start_sof"
                          /\ sofArg' = stopOnOverflow
                          /\ UNCHANGED <<hostCall, imgPixelsLock_>>
                /\ UNCHANGED <<initialized_, props, bitDepth_, binSize_, img_,
                               cameraBuf, roi_, stopOnOverFlow_, camOpen,
                               driverMem, ins, roiCalled>>
  /\ UNCHANGED ileVars

\* the rest of StartSequenceAcquisition: stopOnOverFlow_ = stopOnOverflow
StartSetOverflow ==
  /\ hostpc = "start_sof"
  /\ stopOnOverFlow_' = sofArg
  /\ hostpc' = "idle"
  /\ Return("Start", "DEVICE_OK", "ok")
  /\ UNCHANGED <<initialized_, props, bitDepth_, binSize_, img_, cameraBuf,
                 roi_,
                 imageCounter_, hEvent, thdVars, thrVars, sofArg, sdkVars,
                 logVars>>
  /\ UNCHANGED <<cntVars, ileVars>>

\* what StopSequenceAcquisition tests before thd_->Stop() and thd_->wait()
StopMustWait == ~IsStopped

\* ThorlabsUSBCam::StopSequenceAcquisition up to thd_->wait();
\* MySequenceThread::Stop inlined. A failure of is_StopLiveVideo is only
\* logged.
StopSequenceAcquisition ==
  /\ hostpc = "idle"
  /\ IF StopMustWait
       THEN /\ stop_' = TRUE
            /\ hostpc' = "stop_wait"
            /\ stopInserts' = 0
            /\ UNCHANGED hostCall
       ELSE /\ Return("Stop", "DEVICE_OK", "ok")
            /\ UNCHANGED <<stop_, hostpc, stopInserts>>
  /\ UNCHANGED <<camVars, numImages_, thdImageCounter_, thread_, thrVars,
                 sofArg, sdkVars, ins, acqOpen, roiCalled>>
  /\ UNCHANGED <<cntVars, ileVars>>

\* thd_->wait() returns when the thread of the last activate() has ended
StopWait ==
  /\ hostpc = "stop_wait"
  /\ pc[thread_] = "done"
  /\ hostpc' = "idle"
  /\ stopInserts' = 0
  /\ Return("Stop", "DEVICE_OK", "ok")
  /\ UNCHANGED <<camVars, thdVars, thrVars, sofArg, sdkVars, ins, acqOpen,
                 roiCalled>>
  /\ UNCHANGED <<cntVars, ileVars>>

\* a wait with no timeout while the hardware signals no frame
WaitForever ==
  IF hEvent \in openEvents THEN {} ELSE {"WAIT_FAILED"}

\* WaitForSingleObject(hEvent, 2000): a handle that is not open makes the
\* wait fail
WaitOutcomes ==
  IF hEvent \in openEvents THEN {"WAIT_OBJECT_0", "WAIT_TIMEOUT"}
  ELSE {"WAIT_FAILED"}

\* ThorlabsUSBCam::ThreadRun, the wait and the branch on its result; on
\* WAIT_OBJECT_0 the thread is at the memcpy into img_
ThreadRunWait(t) ==
  /\ pc[t] = "run"
  /\ \E dwRet \in WaitOutcomes :
       IF dwRet = "WAIT_OBJECT_0"
         THEN /\ pc' = [pc EXCEPT ![t] = "memcpy"]
              /\ UNCHANGED ret
       ELSE IF dwRet = "WAIT_TIMEOUT"
         THEN /\ pc' = [pc EXCEPT ![t] = "cond"]
              /\ ret' = [ret EXCEPT ![t] = "ERR_THORCAM_LIVE_TIMEOUT"]
       ELSE /\ pc' = [pc EXCEPT ![t] = "cond"]
            /\ ret' = [ret EXCEPT ![t] = "ERR_THORCAM_LIVE_UNKNOWN_EVENT"]
  /\ waits' = Tally(waits)
  /\ UNCHANGED <<camVars, thdVars, ev, imgPixelsLock_, hostVars, sdkVars,
                 logVars, frames>>
  /\ UNCHANGED ileVars

\* ThreadRun: memcpy(img_.GetPixelsRW(), cameraBuf, ...), then
\* ThorlabsUSBCam::InsertImage up to MMThreadGuard g(imgPixelsLock_)
ThreadRunMemcpy(t) ==
  /\ pc[t] = "memcpy"
  /\ imgPixelsLock_ = 0
  /\ imageCounter_' \in LongOutcomes(imageCounter_ + 1)
  /\ imgPixelsLock_' = t
  /\ ins' = NoIns
  /\ stopInserts' = IF hostpc = "stop_wait" THEN stopInserts + 1
                    ELSE stopInserts
  /\ pc' = [pc EXCEPT ![t] = "ins_first"]
  /\ UNCHANGED <<initialized_, props, bitDepth_, binSize_, img_, cameraBuf,
                 roi_,
                 stopOnOverFlow_, hEvent, thdVars, ret, ev, hostVars,
                 sdkVars, acqOpen, roiCalled>>
  /\ UNCHANGED <<cntVars, ileVars>>

\* an InsertImage that retries on every overflow, whatever stopOnOverFlow_
RetryOnEveryOverflow(r) == r = "DEVICE_BUFFER_OVERFLOW"

\* the test of InsertImage on the result of the first insert
RetryOnOverflow(r) == ~stopOnOverFlow_ /\ r = "DEVICE_BUFFER_OVERFLOW"

\* InsertImage: the first GetCoreCallback()->InsertImage and the test on it
InsertImageFirst(t) ==
  /\ pc[t] = "ins_first"
  /\ \E r \in CoreInsertResults :
       IF RetryOnOverflow(r)
         THEN /\ ins' = [ins EXCEPT !.first = r, !.inserts = 1,
                                    !.sof = stopOnOverFlow_]
              /\ pc' = [pc EXCEPT ![t] = "ins_retry"]
              /\ UNCHANGED <<ret, imgPixelsLock_, frames>>
         ELSE /\ ins' = [ins EXCEPT !.first = r, !.inserts = 1,
                                    !.sof = stopOnOverFlow_, !.last = r]
              /\ ret' = [ret EXCEPT ![t] = r]
              /\ frames' = IF r = "DEVICE_OK" THEN Tally(frames) ELSE frames
              /\ imgPixelsLock_' = 0
              /\ pc' = [pc EXCEPT ![t] = "cond"]
  /\ UNCHANGED <<camVars, thdVars, ev, hostVars, sdkVars, acqOpen,
                 stopInserts, roiCalled, waits>>
  /\ UNCHANGED ileVars

\* InsertImage: ClearImageBuffer and the second InsertImage, returned as is
InsertImageRetry(t) ==
  /\ pc[t] = "ins_retry"
  /\ \E r \in CoreInsertResults :
       /\ ins' = [ins EXCEPT !.clears = ins.clears + 1,
                             !.inserts = ins.inserts + 1, !.last = r]
       /\ ret' = [ret EXCEPT ![t] = r]
       /\ frames' = IF r = "DEVICE_OK" THEN Tally(frames) ELSE frames
  /\ imgPixelsLock_' = 0
  /\ pc' = [pc EXCEPT ![t] = "cond"]
  /\ UNCHANGED <<camVars, thdVars, ev, hostVars, sdkVars, acqOpen,
                 stopInserts, roiCalled, waits>>
  /\ UNCHANGED ileVars

\* a loop condition that does not look at the stop flag
LoopAgainIgnoringStop(r) == r = "DEVICE_OK"

\* MySequenceThread::svc, the first two conjuncts of the do-while condition
\* DEVICE_OK == ret && !IsStopped() && imageCounter_++ < numImages_-1
LoopAgain(r) == r = "DEVICE_OK" /\ ~IsStopped

\* svc: the do-while condition, evaluated when ThreadRun has returned
SvcLoopCondition(t) ==
  /\ pc[t] = "cond"
  /\ IF LoopAgain(ret[t])
       THEN \E last \in LongOutcomes(numImages_ - 1) :
            /\ thdImageCounter_' \in LongOutcomes(thdImageCounter_ + 1)
            /\ pc' = [pc EXCEPT ![t] =
                 IF thdImageCounter_ < last THEN "run" ELSE "after_loop"]
       ELSE /\ pc' = [pc EXCEPT ![t] = "after_loop"]
            /\ UNCHANGED thdImageCounter_
  /\ ins' = NoIns
  /\ UNCHANGED <<camVars, stop_, numImages_, thread_, ret, ev,
                 imgPixelsLock_, hostVars, sdkVars, acqOpen, stopInserts,
                 roiCalled>>
  /\ UNCHANGED <<cntVars, ileVars>>

\* svc after the loop: stop_ = true
SvcSetStop(t) ==
  /\ pc[t] = "after_loop"
  /\ stop_' = TRUE
  /\ pc' = [pc EXCEPT ![t] = "exiting"]
  /\ UNCHANGED <<camVars, numImages_, thdImageCounter_, thread_, ret, ev,
                 imgPixelsLock_, hostVars, sdkVars, logVars>>
  /\ UNCHANGED <<cntVars, ileVars>>

\* ThorlabsUSBCam::OnThreadExiting: is_DisableEvent, is_ExitEvent,
\* CloseHandle(hEvent), hEvent = 0, AcqFinished; then svc returns ret and
\* the thread and its locals are gone
OnThreadExiting(t) ==
  /\ pc[t] = "exiting"
  /\ eventEnabled' = IF camOpen THEN FALSE ELSE eventEnabled
  /\ openEvents' = openEvents \ {hEvent}
  /\ hEvent' = 0
  /\ acqOpen' = acqOpen - 1
  /\ pc' = [pc EXCEPT ![t] = "done"]
  /\ ret' = [ret EXCEPT ![t] = "DEVICE_ERR"]
  /\ ev' = [ev EXCEPT ![t] = 0]
  /\ UNCHANGED <<initialized_, props, bitDepth_, binSize_, img_, cameraBuf,
                 roi_,
                 stopOnOverFlow_, imageCounter_, thdVars, imgPixelsLock_,
                 hostVars, camOpen, driverMem, ins, stopInserts, roiCalled>>
  /\ UNCHANGED <<cntVars, ileVars>>

\* the steps of the thread running svc in slot t
SvcStep(t) ==
  \/ ThreadRunWait(t)
  \/ ThreadRunMemcpy(t)
  \/ InsertImageFirst(t)
  \/ InsertImageRetry(t)
  \/ SvcLoopCondition(t)
  \/ SvcSetStop(t)
  \/ OnThreadExiting(t)

NextThread ==
  \E t \in Threads :
    \/ ThreadRunWait(t)
    \/ ThreadRunMemcpy(t)
    \/ InsertImageFirst(t)
    \/ InsertImageRetry(t)
    \/ SvcLoopCondition(t)
    \/ SvcSetStop(t)
    \/ OnThreadExiting(t)

NextAcquisition ==
  \/ \E n \in NumImagesArgs, s \in BOOLEAN : StartSequenceAcquisition(n, s)
  \/ StartSetOverflow
  \/ StopSequenceAcquisition
  \/ StopWait
  \/ NextThread

\* the camera between Initialize and Shutdown with its acquisition thread
Next ==
  \/ Initialize
  \/ Shutdown
  \/ GetImageBuffer
  \/ NextAcquisition

Spec == Init /\ [][Next]_vars

\* the property handlers beside acquisitions of one frame that do not stop
\* on overflow
NextProps ==
  \/ Initialize
  \/ \E b \in binValues : OnBinning(b)
  \/ \E p \in pixelTypeValues : OnPixelType(p)
  \/ StartSequenceAcquisition(1, FALSE)
  \/ StartSetOverflow
  \/ StopSequenceAcquisition
  \/ StopWait
  \/ NextThread

SpecProps == Init /\ [][NextProps]_vars

\* acquisitions of every length a long can ask for, on an initialized camera
NextFrames ==
  \/ Initialize
  \/ \E n \in LongValues : StartSequenceAcquisition(n, TRUE)
  \/ StartSetOverflow
  \/ StopSequenceAcquisition
  \/ StopWait
  \/ NextThread

SpecFrames == Init /\ [][NextFrames]_vars

\* acquisitions the host starts and stops; every thread the operating system
\* runs takes its next step, and thd_->wait() returns once the thread ended
NextStop ==
  \/ Initialize
  \/ \E s \in BOOLEAN : StartSequenceAcquisition(MaxImages, s)
  \/ StartSetOverflow
  \/ StopSequenceAcquisition
  \/ StopWait
  \/ NextThread

FairScheduling ==
  /\ \A t \in Threads : WF_vars(SvcStep(t))
  /\ WF_vars(StopWait)

SpecStop == Init /\ [][NextStop]_vars /\ FairScheduling

\* lifecycle of both adapters, camera property handlers and ROI, with no
\* acquisition
NextLife ==
  \/ Initialize
  \/ Shutdown
  \/ ILE_Construct(1)
  \/ ILE_Initialize
  \/ ILE_Shutdown
  \/ \E b \in binValues : OnBinning(b)
  \/ \E p \in pixelTypeValues : OnPixelType(p)
  \/ \E a \in ROIArgs : SetROI(a[1], a[2], a[3], a[4])
  \/ ClearROI
  \/ GetImageBuffer

SpecLife == Init /\ [][NextLife]_vars

\* ------------------------------------------------------------------ claims

\* the threads that have begun svc and not returned from it
Running == {t \in Threads : pc[t] \notin {"none", "done"}}

\* C1: only one acquisition thread is active at a time: no thread begins
\* svc while an earlier one has not returned from it.
C1_OneThreadActive == Cardinality(Running) <= 1

\* C2: after a successful Initialize, with no ROI ever applied, the image
\* buffer has the sensor size divided by binSize_ and 1 or 2 bytes per pixel
\* for a bitDepth_ of 8 or 16, and the driver buffer has the same size.
C2_BufferMatchesSettings ==
  (initialized_ /\ ~roiCalled) =>
    LET byteDepth == IF bitDepth_ = 8 THEN 1 ELSE 2
        width == sensorInfo.nMaxWidth \div binSize_
        height == sensorInfo.nMaxHeight \div binSize_
    IN /\ bitDepth_ \in {8, 16}
       /\ img_ = [w |-> width, h |-> height, d |-> byteDepth]
       /\ cameraBuf # 0
       /\ driverMem = [w |-> width, h |-> height, bits |-> byteDepth * 8]

\* C3: a thread that is writing the frame into img_ holds imgPixelsLock_.
C3_CopyUnderLock == \A t \in Threads : pc[t] = "memcpy" => imgPixelsLock_ = t

\* C4: when InsertImage has returned, it cleared the queue once and inserted
\* a second time, returning that insert's result, exactly when the first
\* insert overflowed and stopOnOverFlow_ was off; otherwise it cleared
\* nothing, inserted once and returned the first result. It is at the retry
\* only in the first case.
C4_OverflowRetry ==
  \A t \in Threads :
    LET retried == ins.first = "DEVICE_BUFFER_OVERFLOW" /\ ~ins.sof
    IN /\ (pc[t] = "cond" /\ ins.inserts > 0) =>
            IF retried
              THEN ins.clears = 1 /\ ins.inserts = 2 /\ ret[t] = ins.last
              ELSE ins.clears = 0 /\ ins.inserts = 1 /\ ret[t] = ins.first
       /\ pc[t] = "ins_retry" =>
            retried /\ ins.clears = 0 /\ ins.inserts = 1

\* C4 witness: an overflow with stop-on-overflow off was retried with success
C4_Witness ==
  \E t \in Threads :
    /\ pc[t] = "cond"
    /\ ins.first = "DEVICE_BUFFER_OVERFLOW"
    /\ ins.inserts = 2
    /\ ret[t] = "DEVICE_OK"

\* C5: when StopSequenceAcquisition has returned, every acquisition thread
\* has returned from svc, exit handler included.
C5_StopWaitsForThread ==
  (hostCall.op = "Stop" /\ hostpc = "idle") => Running = {}

\* C6: while StopSequenceAcquisition waits after setting the flag, the
\* thread begins at most one more InsertImage, and after that one it does
\* not wait for a further frame.
C6_OneFrameAfterStop ==
  /\ stopInserts <= 1
  /\ (hostpc = "stop_wait" /\ stopInserts = 1) =>
       \A t \in Threads : pc[t] \notin {"run", "memcpy"}

\* C6 witness: the flag was set during a wait, and the frame of that wait
\* was inserted afterwards
C6_Witness ==
  /\ hostpc = "stop_wait"
  /\ stopInserts = 1
  /\ \E t \in Threads : pc[t] = "cond" /\ ret[t] = "DEVICE_OK"

\* C7: a StartSequenceAcquisition, Binning set or PixelType set made while
\* IsCapturing is true returns DEVICE_CAMERA_BUSY_ACQUIRING, makes no SDK
\* call and changes no field, handle or buffer.
C7_BusyChangesNothing ==
  [][(/\ IsCapturing
      /\ \/ \E n \in NumImagesArgs, s \in BOOLEAN :
              StartSequenceAcquisition(n, s)
         \/ \E b \in binValues : OnBinning(b)
         \/ \E p \in pixelTypeValues : OnPixelType(p))
     => /\ hostCall'.ret = "DEVICE_CAMERA_BUSY_ACQUIRING"
        /\ hostCall'.sdk = "none"
        /\ hostpc' = "idle"
        /\ UNCHANGED <<camVars, thdVars, thrVars, sdkVars, logVars>>]_vars

\* C7 witness: a PixelType set was refused during an acquisition
C7_Witness ==
  /\ IsCapturing
  /\ hostCall.op = "SetPixelType"
  /\ hostCall.ret = "DEVICE_CAMERA_BUSY_ACQUIRING"
  /\ \E t \in Threads : pc[t] = "ins_first"

\* the camera as a Shutdown that returned DEVICE_OK leaves it
ShutDown == cameraBuf = 0 /\ ~camOpen /\ ~initialized_

\* C8: Shutdown may be called several times in a row: a Shutdown that
\* returns DEVICE_OK leaves the camera shut down, no call other than
\* Initialize changes that, and a Shutdown of a camera that is shut down
\* returns DEVICE_OK, frees no driver buffer and leaves initialized_ false.
C8_ShutdownRepeatable ==
  [][/\ (Shutdown /\ hostCall'.ret = "DEVICE_OK") => ShutDown'
     /\ (ShutDown /\ ~Initialize) => ShutDown'
     /\ (ShutDown /\ Shutdown) =>
          /\ hostCall'.ret = "DEVICE_OK"
          /\ driverMem' = driverMem
          /\ ~initialized_']_vars

\* C8 witness: a camera that had been initialized was shut down, and a
\* further Shutdown, whose is_ExitCamera found the camera closed, has
\* returned DEVICE_OK
C8_Witness ==
  /\ hostCall = [op |-> "Shutdown", ret |-> "DEVICE_OK", sdk |-> "failed"]
  /\ img_.d # 0
  /\ ShutDown

\* C9: in both adapters an Initialize in which a step failed returns a
\* code other than DEVICE_OK and leaves the initialized flag false.
C9_InitializedOnlyIfAllSteps ==
  /\ (hostCall.op = "Initialize" /\ hostCall.sdk = "failed") =>
       (hostCall.ret # "DEVICE_OK" /\ ~initialized_)
  /\ (ileCall.op = "Initialize" /\ ileCall.failed) =>
       (ileCall.ret # "DEVICE_OK" /\ ~Initialized_)

\* C10: a thread whose ThreadRun returned an error waits for and inserts no
\* further frame, sets stop_, and its exit handler closes the frame event of
\* its acquisition and reports AcqFinished once, keeping the error as the
\* value svc returns.
C10_FailureStopsAndReports ==
  [][\A t \in Threads :
       LET failed == ret[t] # "DEVICE_OK"
       IN /\ (pc[t] = "cond" /\ failed /\ pc'[t] # pc[t]) =>
               pc'[t] = "after_loop" /\ ret'[t] = ret[t]
          /\ (pc[t] = "after_loop" /\ failed /\ pc'[t] # pc[t]) =>
               pc'[t] = "exiting" /\ stop_' /\ ret'[t] = ret[t]
          /\ (pc[t] = "exiting" /\ failed /\ pc'[t] # pc[t]) =>
               /\ pc'[t] = "done"
               /\ ev[t] \notin openEvents'
               /\ acqOpen' = acqOpen - 1
          /\ (pc[t] = "exiting" /\ failed /\ pc'[t] = pc[t]) =>
               ret'[t] = ret[t]]_vars

\* C11: an acquisition started with numImages = N that meets no error and no
\* stop request makes max(N, 1) frame waits and inserts max(N, 1) frames
\* when it leaves its loop, never makes more, and both image counters are 0
\* when thd_->Start has returned.
FramesAsked == IF numImages_ >= 1 THEN numImages_ ELSE 1

C11_ExactlyNFrames ==
  /\ hostpc = "start_sof" /\ waits = 0
       => thdImageCounter_ = 0 /\ imageCounter_ = 0
  /\ \A t \in Threads :
       /\ pc[t] \in {"run", "memcpy", "ins_first", "ins_retry", "cond"}
            => waits <= FramesAsked /\ frames <= FramesAsked
       /\ pc[t] = "after_loop" /\ ret[t] = "DEVICE_OK" /\ ~stop_
            => waits = FramesAsked /\ frames = FramesAsked

\* C12: once StopSequenceAcquisition has been called on a running
\* acquisition, under fair scheduling the thread reaches its exit handler and
\* ends, and StopSequenceAcquisition returns DEVICE_OK, whether or not the
\* hardware signals another frame.
LastThreadAt(p) == thread_ \in Threads /\ pc[thread_] = p

StopReturned ==
  /\ hostpc = "idle"
  /\ hostCall = [op |-> "Stop", ret |-> "DEVICE_OK", sdk |-> "ok"]
  /\ LastThreadAt("done")

\* StopSequenceAcquisition waits for a thread that is still in svc
StopPending ==
  /\ hostpc = "stop_wait"
  /\ ~LastThreadAt("exiting")
  /\ ~LastThreadAt("done")

C12_StopTerminates ==
  /\ StopPending ~> LastThreadAt("exiting")
  /\ (hostpc = "stop_wait") ~> StopReturned

\* Stop waits for a thread that got no frame at all and ended on timeouts
C12_Witness ==
  /\ StopReturned
  /\ waits > 0
  /\ frames = 0
  /\ stopInserts = 0

\* C13: a write of On to "Reset device connection" whose CreateILE succeeds
\* returns DEVICE_OK with the interfaces re-attached to the lasers object and
\* the property back to Off and read-only; ERR_DEVICE_CONNECTIONFAILED is
\* returned only when CreateILE failed, and no null pointer is used then.
C13_ResetReconnects ==
  ileCall.op = "OnResetDevice(On)" =>
    /\ ~ileCall.failed =>
          /\ ileCall.ret = "DEVICE_OK"
          /\ attached
          /\ resetProp.value = g_PropertyOff
          /\ resetProp.readOnly
    /\ ileCall.ret = "ERR_DEVICE_CONNECTIONFAILED" => ileCall.failed
    /\ ileCall.failed => ileFault = "none"

\* C14: the "Reset device connection" property is read-only with value Off
\* from its creation by Initialize until a handler call or an interlock;
\* every ActiveClassIVInterlock after a successful Initialize leaves it
\* writable; after a reset that returned DEVICE_OK it is read-only with
\* value Off.
C14_ResetPropertyCycle ==
  /\ resetProp.exists /\ ~ResetDeviceProperty_
       => resetProp.readOnly /\ resetProp.value = g_PropertyOff
  /\ ileCall.op = "ActiveClassIVInterlock" /\ Initialized_
       => ~resetProp.readOnly
  /\ ileCall.op = "OnResetDevice(On)" /\ ileCall.ret = "DEVICE_OK"
       => resetProp.readOnly /\ resetProp.value = g_PropertyOff

\* C15: OnDeviceChange with a device index outside [0, NbDevices) returns
\* ERR_DEVICE_INDEXINVALID and changes no stored name; with a valid index a
\* set stores the name written and a get yields the stored name, and the
\* names of the other indices stay; the engine holds exactly NbDevices >= 1
\* names, a construction with NbDevices <= 0 being rejected.
ValidIndex(i) == 0 <= i /\ i < NbDevices

DeviceChanged(Act, i, value) ==
  IF ValidIndex(i)
    THEN /\ ileCall'.ret = "DEVICE_OK"
         /\ \A j \in 1..NbDevices :
              j # i + 1 => DevicesNames_'[j] = DevicesNames_[j]
         /\ Act = "AfterSet" => DevicesNames_'[i + 1] = value
         /\ Act = "BeforeGet" =>
              /\ DevicesNames_' = DevicesNames_
              /\ deviceProps'[i + 1] = DevicesNames_[i + 1]
    ELSE /\ ileCall'.ret = "ERR_DEVICE_INDEXINVALID"
         /\ DevicesNames_' = DevicesNames_

C15_DeviceNames ==
  [][/\ \A a \in {"BeforeGet", "AfterSet"}, i \in LongValues,
          v \in DeviceNames :
          OnDeviceChange(a, i, v) => DeviceChanged(a, i, v)
     /\ \A n \in NbDevicesArgs :
          ILE_Construct(n) /\ n <= 0 => ~ileObject'
     /\ ileObject' => NbDevices' >= 1 /\ Len(DevicesNames_') = NbDevices'
    ]_vars

\* an invalid index is refused after both names of a dual engine were set
C15_Witness ==
  /\ ileCall.op = "OnDeviceChange"
  /\ ileCall.ret = "ERR_DEVICE_INDEXINVALID"
  /\ NbDevices = MaxDevices
  /\ DevicesNames_[1] # DevicesNames_[2]
  /\ g_Undefined \notin {DevicesNames_[1], DevicesNames_[2]}

\* C16: every host InsertImage of an acquisition, the first included, is
\* made under the stopOnOverflow value of the StartSequenceAcquisition call
\* that started the acquisition.
C16_OverflowPolicyOfStart ==
  \A t \in Threads :
    t = thread_ /\ pc[t] \in {"ins_retry", "cond"} /\ ins.inserts > 0
      => ins.sof = sofArg

====
